---- MODULE Spec2Model ----
(***************************************************************************)
(* The Paystack webhook dispatcher of src/server.js.                        *)
(*                                                                          *)
(* src/server.js holds two definitions of the server: lines 1-711 (request  *)
(* ids, logging, subscriber ids, per-subscriber timeouts) and lines 712-988 *)
(* (the plain one).  A dispatch flow is served by one of them; the field    *)
(* def of a flow says which.                                                *)
(*                                                                          *)
(* JavaScript runs a handler to completion between two awaits, so an action *)
(* is the code between two suspension points: the arrival of the request up *)
(* to `await Promise.all`, the settling of one verification lookup, the     *)
(* settling of the forward request.                                         *)
(***************************************************************************)
EXTENDS Integers, Sequences, FiniteSets, TLC

\* Bounds of the model.
MaxFlows == 1        \* inbound webhook events handled in one behaviour
MaxSystems == 3      \* length the registry of the first definition may grow to

Flows == 1..MaxFlows

VARIABLES
    PAYSTACK_SECRET_KEY,   \* process.env.PAYSTACK_SECRET_KEY
    TICKETING_SYSTEMS,     \* the registry of the first definition
    flows,                 \* the dispatch flows: request, position, local variables
    answers,               \* per flow, the answers its lookups received, where kept
    errorLogged,           \* 'Webhook dispatcher error' was logged by a catch
    adminAdd,              \* the last POST /admin/systems and its answer, where kept
    calls,                 \* two calls of findTargetSystem made one after the other
    adminTest,             \* the last POST /admin/test-webhook/:systemId
    health                 \* the last GET /health

vars == <<PAYSTACK_SECRET_KEY, TICKETING_SYSTEMS, flows, answers, errorLogged,
          adminAdd, calls, adminTest, health>>

undefined == "undefined"

----------------------------------------------------------------------------
(* The registries. *)

InitialSystems ==
    << [id |-> "cbs-ticketing", name |-> "CBS Ticketing", enabled |-> TRUE,
        timeout |-> 30000],
       [id |-> undefined, name |-> "MMV Ticketing", enabled |-> TRUE,
        timeout |-> 0] >>

SecondSystems ==
    << [id |-> undefined, name |-> "CBS Ticketing", enabled |-> TRUE,
        timeout |-> 0],
       [id |-> undefined, name |-> "MMV Ticketing", enabled |-> TRUE,
        timeout |-> 0] >>

\* The registry a flow of definition d reads.
Registry(d) == IF d = 1 THEN TICKETING_SYSTEMS ELSE SecondSystems

----------------------------------------------------------------------------
(* Request bodies: a raw body is a sequence of tokens, "ws" is insignificant *)
(* white space between two tokens.                                          *)

RawBodies ==
    { <<"{", "}">>,
      <<"{", "data", "{", "reference", "REF-1", "}", "}">>,
      <<"{", "ws", "data", "{", "reference", "REF-1", "}", "ws", "}">> }

\* express.json(): the parsed body. White space is dropped.
JSONparse(raw) ==
    LET t == SelectSeq(raw, LAMBDA x : x # "ws")
        at == {i \in 1..Len(t) : t[i] = "reference"}
    IN  [hasData |-> \E i \in 1..Len(t) : t[i] = "data",
         reference |-> IF at = {} THEN undefined
                       ELSE t[(CHOOSE i \in at : TRUE) + 1]]

\* JSON.stringify(req.body): the compact serialization.
JSONstringify(body) ==
    IF ~body.hasData THEN <<"{", "}">>
    ELSE IF body.reference = undefined THEN <<"{", "data", "{", "}", "}">>
    ELSE <<"{", "data", "{", "reference", body.reference, "}", "}">>

\* crypto.createHmac('sha512', key).update(bytes).digest('hex'): collision
\* free, so the digest is the pair of its key and its message.
createHmac(key, bytes) == <<"hmac", key>> \o bytes

NoSignature == <<>>                 \* the header is absent
ProviderKey == "sk_live"            \* the key the provider signs with

\* The signature headers a sender may attach to raw.
Signatures(raw) ==
    { NoSignature,
      <<"hmac", "forged">>,
      createHmac(ProviderKey, raw),
      createHmac(ProviderKey, JSONstringify(JSONparse(raw))) }

----------------------------------------------------------------------------
(* Outbound calls.  The answer of a subscriber to one axios request: a      *)
(* response with a status (ticket: the body has a truthy data.ticket), the  *)
(* request's own timeout, or a network error.                               *)

Resp(status, ticket) == [kind |-> "response", status |-> status, ticket |-> ticket]
Timeout == [kind |-> "timeout", status |-> 0, ticket |-> FALSE]
NetworkError == [kind |-> "network", status |-> 0, ticket |-> FALSE]
Unanswered == [kind |-> "pending", status |-> 0, ticket |-> FALSE]

LookupOutcomes ==
    { Resp(200, FALSE), Resp(400, TRUE), Resp(400, FALSE), Resp(404, FALSE),
      Resp(404, TRUE), Resp(500, TRUE), Resp(503, FALSE), Timeout, NetworkError }

ForwardOutcomes ==
    { Resp(200, FALSE), Resp(404, FALSE), Resp(500, FALSE), Resp(503, FALSE),
      Timeout, NetworkError }

\* validateStatus: (status) => status < 500
validateStatus(status) == status < 500

\* axios' default validateStatus, used when the request names none.
defaultValidateStatus(status) == status >= 200 /\ status < 300

\* Whether the axios promise of a call of definition d rejects on outcome o.
lookupRejects(o) == o.kind # "response" \/ ~validateStatus(o.status)

forwardRejects(d, o) ==
    \/ o.kind # "response"
    \/ IF d = 1 THEN ~validateStatus(o.status) ELSE ~defaultValidateStatus(o.status)

\* error.message of a rejected axios promise.
errorMessage(o) ==
    CASE o.kind = "timeout" -> "timeout exceeded"
      [] o.kind = "network" -> "Network Error"
      [] OTHER -> "Request failed with status code"

----------------------------------------------------------------------------
(* findTargetSystem *)

\* A filter that keeps every entry, enabled or not.
allSystems(reg) == [i \in 1..Len(reg) |-> i]

\* A filter whose result lists the enabled entries last to first.
enabledSystemsReversed(reg) ==
    LET fwd == SelectSeq([i \in 1..Len(reg) |-> i], LAMBDA i : reg[i].enabled)
    IN  [k \in 1..Len(fwd) |-> fwd[Len(fwd) + 1 - k]]

\* TICKETING_SYSTEMS.filter(system => system.enabled): the enabled entries,
\* in registry order, as positions of the registry.
enabledSystems(reg) ==
    SelectSeq([i \in 1..Len(reg) |-> i], LAMBDA i : reg[i].enabled)

\* A lookup whose catch throws the error on instead of absorbing it.
lookupRethrown(o) == "throw"

\* The catch of one lookup: the error is logged and the lookup yields null.
lookupCaught(o) == "null"

\* A lookup without deadline that has not returned: its promise stays
\* pending whatever becomes of the request.
lookupPending(o) == "pending"

\* A classification that takes every 400 for a match, ticket or not.
lookupResultAny400(o) ==
    IF lookupRejects(o) THEN "null"
    ELSE IF o.status = 200 \/ o.status = 400 THEN "system"
    ELSE "null"

\* What the callback of one lookup returns for the outcome o of its request:
\* "system" (the subscriber itself) or "null".
lookupResult(o) ==
    IF lookupRejects(o) THEN lookupCaught(o)
    ELSE IF o.status = 200 \/ (o.status = 400 /\ o.ticket) THEN "system"
    ELSE "null"

\* A join that goes on as soon as one lookup has returned (Promise.race).
anySettled(results) == \E k \in 1..Len(results) : results[k] # "pending"

\* Promise.all(searchPromises) is settled: every lookup has returned.
allSettled(results) == \A k \in 1..Len(results) : results[k] # "pending"

\* A find whose predicate holds of every element: the first subscriber asked,
\* whatever its lookup returned.
findFirstAsked(results, snap) == IF snap = <<>> THEN 0 ELSE snap[1]

\* A find that takes the last subscriber returned (findLast).
findLast(results, snap) ==
    LET hit == {k \in 1..Len(results) : results[k] = "system"}
    IN  IF hit = {} THEN 0
        ELSE snap[CHOOSE k \in hit : \A j \in hit : k >= j]

\* results.find(system => system !== null): the first subscriber returned,
\* as a position of the registry; 0 is undefined.
find(results, snap) ==
    LET hit == {k \in 1..Len(results) : results[k] = "system"}
    IN  IF hit = {} THEN 0
        ELSE snap[CHOOSE k \in hit : \A j \in hit : k <= j]

----------------------------------------------------------------------------
(* forwardWebhook *)

\* The result forwardWebhook of definition d returns for the outcome o of
\* its axios.post. status.code 0 is undefined.
forwardWebhook(d, o) ==
    IF ~forwardRejects(d, o)
    THEN [success |-> TRUE,
          status |-> IF d = 1 THEN [code |-> o.status, text |-> ""]
                     ELSE [code |-> 0, text |-> undefined],
          data |-> o.status, error |-> ""]
    ELSE [success |-> FALSE,
          status |-> IF o.kind = "response" THEN [code |-> o.status, text |-> ""]
                     ELSE IF d = 1 THEN [code |-> 0, text |-> "network_error"]
                     ELSE [code |-> 0, text |-> undefined],
          data |-> 0, error |-> errorMessage(o)]

NoResult == [success |-> FALSE, status |-> [code |-> 0, text |-> undefined],
             data |-> 0, error |-> ""]

----------------------------------------------------------------------------
(* The dispatch handler, app.post('/webhooks/paystack') *)

\* No request has been sent.
NoRequest == [body |-> <<>>, signature |-> NoSignature]

\* lookedUp is the paymentReference findTargetSystem was called with,
\* request the body and the signature header of the axios.post of the forward.
IdleFlow ==
    [def |-> 0, pc |-> "idle", signature |-> NoSignature, rawBody |-> <<>>,
     lookedUp |-> undefined, snap |-> <<>>, results |-> <<>>, forwards |-> <<>>,
     request |-> NoRequest, downstream |-> Timeout,
     forwardResult |-> NoResult, responses |-> <<>>]

\* res.status(status).json({error, reference, forwardedTo, response, details})
Response(status, error, reference, forwardedTo, response, details) ==
    [status |-> status, error |-> error, reference |-> reference,
     forwardedTo |-> forwardedTo, response |-> response, details |-> details]

\* The flow after res.status(...).json(...) ended the handler.
Respond(fl, r) == [fl EXCEPT !.pc = "done", !.responses = Append(@, r)]

\* A handler without catch: the exception escapes and ends the process.
processingUncaught(fl) == [fl EXCEPT !.pc = "crashed"]

\* The catch of the handler: the generic 500.
processingFailed(fl) ==
    Respond(fl, Response(500, "Webhook processing failed", undefined, undefined,
                         0, undefined))

\* A signature check that accepts every header that is present.
verifySignatureUnchecked(signature, body, key) ==
    IF signature = NoSignature THEN "missing" ELSE "verified"

\* The signature check of the first definition: "missing" is decided before
\* the hash is computed, "throws" is createHmac on an unset key.
verifySignature(signature, body, key) ==
    IF signature = NoSignature THEN "missing"
    ELSE IF key = undefined THEN "throws"
    ELSE IF createHmac(key, JSONstringify(body)) # signature THEN "invalid"
    ELSE "verified"

\* The signature check of the second definition: the hash is computed first
\* and an absent header is one more header that differs from it.
verifySignatureSecond(signature, body, key) ==
    IF key = undefined THEN "throws"
    ELSE IF createHmac(key, JSONstringify(body)) # signature THEN "invalid"
    ELSE "verified"

\* A not-found answer whose body has no error field.
notFoundWithoutError(d, reference) ==
    Response(404, "", IF d = 1 THEN reference ELSE undefined, undefined, 0,
             undefined)

\* A not-found answer sent with status 200.
notFoundAsOk(d, reference) ==
    Response(200, "Payment reference not found in any system",
             IF d = 1 THEN reference ELSE undefined, undefined, 0, undefined)

\* The answer to a reference no subscriber confirmed.
notFound(d, reference) ==
    Response(404, "Payment reference not found in any system",
             IF d = 1 THEN reference ELSE undefined, undefined, 0, undefined)

\* A handler that forwards to every subscriber that confirmed.
forwardTargetsAll(results, snap) ==
    LET ks == SelectSeq([k \in 1..Len(results) |-> k],
                        LAMBDA k : results[k] = "system")
    IN  [j \in 1..Len(ks) |-> snap[ks[j]]]

\* A handler whose results array is a variable the flows share: the join
\* reads what the first flow left in it.
forwardTargetsShared(results, snap) ==
    LET shared == IF Len(flows[1].results) = Len(results)
                  THEN flows[1].results ELSE results
    IN  IF find(shared, snap) = 0 THEN <<>> ELSE <<find(shared, snap)>>

\* The subscribers forwardWebhook is called for once the lookups are joined:
\* targetSystem, if there is one.
forwardTargets(results, snap) ==
    IF find(results, snap) = 0 THEN <<>> ELSE <<find(results, snap)>>

\* A forward that carries the signature header of the test request.
forwardRequestTestSigned(fl) ==
    [body |-> JSONstringify(JSONparse(fl.rawBody)),
     signature |-> <<"test-signature">>]

\* What axios.post of forwardWebhook sends for flow fl: webhookBody, which is
\* req.body, serialized by axios with JSON.stringify, and the header
\* X-Paystack-Signature set to the x-paystack-signature of the request.
forwardRequest(fl) ==
    [body |-> JSONstringify(JSONparse(fl.rawBody)), signature |-> fl.signature]

\* The handler from the join of the lookups to its next suspension: the 404,
\* or the forward request issued by forwardWebhook.
afterResolution(fl, results) ==
    LET targets == forwardTargets(results, fl.snap)
    IN  IF targets = <<>>
        THEN Respond([fl EXCEPT !.results = results],
                     notFound(fl.def, JSONparse(fl.rawBody).reference))
        ELSE [fl EXCEPT !.results = results, !.pc = "forwarding",
                        !.forwards = targets, !.request = forwardRequest(fl)]

\* A resolution that issues its first lookup only and leaves the others to be
\* issued when it has returned.
startResolutionSequential(fl, reg) ==
    LET snap == enabledSystems(reg)
    IN  IF snap = <<>> THEN afterResolution([fl EXCEPT !.snap = snap], <<>>)
        ELSE [fl EXCEPT !.pc = "resolving", !.snap = snap,
                        !.results = [k \in 1..Len(snap) |->
                                        IF k = 1 THEN "pending" ELSE "unissued"]]

\* findTargetSystem up to `await Promise.all`: one lookup is issued to every
\* enabled subscriber of the registry as it is now.
startResolution(fl, reg) ==
    LET snap == enabledSystems(reg)
    IN  IF snap = <<>> THEN afterResolution([fl EXCEPT !.snap = snap], <<>>)
        ELSE [fl EXCEPT !.pc = "resolving", !.snap = snap,
                        !.results = [k \in 1..Len(snap) |-> "pending"]]

\* The handler of definition d from the arrival of the request to its first
\* suspension or its response.
paystackHandler(d, signature, raw, reg, key) ==
    LET body == JSONparse(raw)
        fl == [IdleFlow EXCEPT !.def = d, !.signature = signature, !.rawBody = raw]
        verdict == IF d = 1 THEN verifySignature(signature, body, key)
                   ELSE verifySignatureSecond(signature, body, key)
    IN  CASE verdict = "missing" ->
               Respond(fl, Response(400, "Missing signature", undefined, undefined,
                                    0, undefined))
          [] verdict = "throws" -> processingFailed(fl)
          [] verdict = "invalid" ->
               Respond(fl, Response(400, "Invalid signature", undefined, undefined,
                                    0, undefined))
          [] OTHER ->
               IF body.reference = undefined
               THEN Respond(fl, Response(400, "No payment reference", undefined,
                                         undefined, 0, undefined))
               ELSE startResolution([fl EXCEPT !.lookedUp = body.reference], reg)

\* The handler after the outcome o of the forward request. snap and results,
\* locals of findTargetSystem, are kept up to here and dropped now.
afterForward(fl, o) ==
    LET result == forwardWebhook(fl.def, o)
        target == Registry(fl.def)[fl.forwards[1]]
        done == [fl EXCEPT !.downstream = o, !.forwardResult = result,
                           !.snap = <<>>, !.results = <<>>]
    IN  IF result.success
        THEN Respond(done, Response(200, "", undefined, target.name, result.data,
                                    undefined))
        ELSE Respond(done, Response(500, "Failed to forward webhook", undefined,
                                    undefined, 0, result.error))

----------------------------------------------------------------------------
(* Actions *)

\* The process is alive: no exception escaped a handler.
running == \A f \in DOMAIN flows : flows[f].pc # "crashed"

\* The catch of the handler ran for flow fl (logger.error, then the 500).
caught(fl) ==
    fl.pc = "done" /\ fl.responses[1].error = "Webhook processing failed"

\* An event arrives at POST /webhooks/paystack of definition d. keep: the
\* answers of the lookups of this flow are kept in answers.
Dispatch(f, d, signature, raw, keep) ==
    /\ running
    /\ flows[f].pc = "idle"
    /\ flows' = [flows EXCEPT ![f] =
                    paystackHandler(d, signature, raw, Registry(d), PAYSTACK_SECRET_KEY)]
    /\ answers' = IF keep
                  THEN [answers EXCEPT ![f] =
                           [k \in 1..Len(flows'[f].snap) |-> Unanswered]]
                  ELSE answers
    /\ errorLogged' = (errorLogged \/ caught(flows'[f]))
    /\ UNCHANGED <<PAYSTACK_SECRET_KEY, TICKETING_SYSTEMS, adminAdd, calls, adminTest, health>>

\* The lookup of flow f to its k-th subscriber settles with outcome o. The
\* flow goes on once all its lookups are settled; a lookup that throws
\* rejects Promise.all at once and ends in the catch of the handler.
LookupSettles(f, k, o, keep) ==
    /\ running
    /\ flows[f].pc = "resolving"
    /\ k \in 1..Len(flows[f].results)
    /\ flows[f].results[k] = "pending"
    /\ LET results == [flows[f].results EXCEPT ![k] = lookupResult(o)]
       IN  flows' = [flows EXCEPT ![f] =
                        IF results[k] = "throw"
                        THEN processingFailed([flows[f] EXCEPT !.results = results])
                        ELSE IF allSettled(results)
                        THEN afterResolution(flows[f], results)
                        ELSE [flows[f] EXCEPT !.results = results]]
    /\ answers' = IF keep THEN [answers EXCEPT ![f][k] = o] ELSE answers
    /\ errorLogged' = (errorLogged \/ caught(flows'[f]))
    /\ UNCHANGED <<PAYSTACK_SECRET_KEY, TICKETING_SYSTEMS, adminAdd, calls, adminTest, health>>

\* The forward request of flow f settles with outcome o.
ForwardSettles(f, o) ==
    /\ running
    /\ flows[f].pc = "forwarding"
    /\ flows' = [flows EXCEPT ![f] = afterForward(flows[f], o)]
    /\ answers' = [answers EXCEPT ![f] = <<>>]
    /\ UNCHANGED <<PAYSTACK_SECRET_KEY, TICKETING_SYSTEMS, errorLogged, adminAdd, calls, adminTest, health>>

\* The response of flow f has been sent and the request is over: the flow
\* and its locals are gone, the next request may come.
Close(f) ==
    /\ running
    /\ flows[f].pc = "done"
    /\ flows' = [flows EXCEPT ![f] = IdleFlow]
    /\ answers' = [answers EXCEPT ![f] = <<>>]
    /\ UNCHANGED <<PAYSTACK_SECRET_KEY, TICKETING_SYSTEMS, errorLogged, adminAdd, calls, adminTest, health>>

\* The validation of the second definition: name and baseUrl only.
addAcceptedWithoutId(id, name, baseUrl) ==
    ~(name = undefined \/ baseUrl = undefined)

\* if (!id || !name || !baseUrl) return 400
addAccepted(id, name, baseUrl) ==
    ~(id = undefined \/ name = undefined \/ baseUrl = undefined)

\* An insertion at the head of the registry (unshift).
unshift(reg, newSystem) == <<newSystem>> \o reg

\* TICKETING_SYSTEMS.push(newSystem)
push(reg, newSystem) == Append(reg, newSystem)

NoAdd ==
    [op |-> "none", id |-> undefined, name |-> undefined, baseUrl |-> undefined,
     enabled |-> TRUE, status |-> 0, before |-> <<>>]

\* POST /admin/systems with body {id, name, baseUrl, enabled}; webhookPath
\* and timeout take their defaults. keep: the request, the registry it found
\* and the status of its answer are kept in adminAdd.
AddSystem(id, name, baseUrl, enabled, keep) ==
    /\ running
    /\ Len(TICKETING_SYSTEMS) < MaxSystems
    /\ TICKETING_SYSTEMS' =
          IF ~addAccepted(id, name, baseUrl)
          THEN TICKETING_SYSTEMS
          ELSE push(TICKETING_SYSTEMS,
                    [id |-> id, name |-> name, enabled |-> enabled,
                     timeout |-> 30000])
    /\ adminAdd' =
          IF keep
          THEN [op |-> "add", id |-> id, name |-> name, baseUrl |-> baseUrl,
                enabled |-> enabled,
                status |-> IF addAccepted(id, name, baseUrl) THEN 200 ELSE 400,
                before |-> TICKETING_SYSTEMS]
          ELSE adminAdd
    /\ UNCHANGED <<PAYSTACK_SECRET_KEY, flows, answers, errorLogged, calls, adminTest, health>>

\* A call of findTargetSystem that has not been made.
NoCall ==
    [pc |-> "idle", reference |-> undefined, reg |-> <<>>, snap |-> <<>>,
     answers |-> <<>>, results |-> <<>>, first |-> 0, target |-> 0]

References == {"REF-1", "REF-2"}

\* The answers drawn for the lookups of the two calls: a confirmation and a
\* timeout.
CallOutcomes == {Resp(200, FALSE), Timeout}

\* An array of results filled in the order in which the lookups settle.
settledInArrivalOrder(results, k, r) ==
    LET free == {j \in 1..Len(results) : results[j] = "pending"}
    IN  [results EXCEPT ![CHOOSE j \in free : \A i \in free : j <= i] = r]

\* Promise.all: the result of the k-th promise is the k-th element of the
\* array it resolves with, whenever that promise settles.
settled(results, k, r) == [results EXCEPT ![k] = r]

\* findTargetSystem(reference) is called, the second time once the first call
\* has returned: the enabled subscribers are filtered and one lookup is
\* issued to each.
Resolve(c, reference) ==
    /\ running
    /\ calls[c].pc = "idle"
    /\ c = 2 => calls[1].pc = "done"
    /\ LET snap == enabledSystems(TICKETING_SYSTEMS)
       IN  calls' = [calls EXCEPT ![c] =
                        [pc |-> IF snap = <<>> THEN "done" ELSE "waiting",
                         reference |-> reference,
                         reg |-> TICKETING_SYSTEMS, snap |-> snap,
                         answers |-> [k \in 1..Len(snap) |-> Unanswered],
                         results |-> [k \in 1..Len(snap) |-> "pending"],
                         first |-> 0, target |-> 0]]
    /\ UNCHANGED <<PAYSTACK_SECRET_KEY, TICKETING_SYSTEMS, flows, answers,
                   errorLogged, adminAdd, adminTest, health>>

\* The k-th lookup of call c settles with outcome o; once every lookup has
\* settled the call returns results.find(system => system !== null).
ResolveSettles(c, k, o) ==
    /\ running
    /\ calls[c].pc = "waiting"
    /\ k \in 1..Len(calls[c].answers)
    /\ calls[c].answers[k] = Unanswered
    /\ LET call == calls[c]
           results == settled(call.results, k, lookupResult(o))
       IN  calls' = [calls EXCEPT ![c] =
                        [call EXCEPT
                            !.answers = [call.answers EXCEPT ![k] = o],
                            !.results = results,
                            !.first = IF call.first = 0 THEN k ELSE call.first,
                            !.pc = IF allSettled(results) THEN "done" ELSE "waiting",
                            !.target = IF allSettled(results)
                                       THEN find(results, call.snap) ELSE 0]]
    /\ UNCHANGED <<PAYSTACK_SECRET_KEY, TICKETING_SYSTEMS, flows, answers,
                   errorLogged, adminAdd, adminTest, health>>

\* No test request has been made.
NoTest ==
    [pc |-> "idle", systemId |-> undefined, before |-> <<>>, outbound |-> <<>>,
     status |-> 0, error |-> "", result |-> NoResult]

\* The :systemId of the path, always a string.
TestSystemIds == {"cbs-ticketing", "new-system", "no-such-system"}

\* A find that falls back on the first subscriber when none has the id.
findSystemOrFirst(reg, systemId) ==
    LET hit == {i \in 1..Len(reg) : reg[i].id = systemId}
    IN  IF hit = {} THEN 1 ELSE CHOOSE i \in hit : \A j \in hit : i <= j

\* TICKETING_SYSTEMS.find(s => s.id === systemId): the first subscriber with
\* that id, as a position of the registry; 0 is undefined. An entry without
\* id equals no string.
findSystem(reg, systemId) ==
    LET hit == {i \in 1..Len(reg) : reg[i].id # undefined /\ reg[i].id = systemId}
    IN  IF hit = {} THEN 0 ELSE CHOOSE i \in hit : \A j \in hit : i <= j

\* POST /admin/test-webhook/:systemId up to its 404 or to the axios.post of
\* forwardWebhook. outbound lists the requests the handler has sent, before
\* is the registry it found.
TestWebhook(systemId) ==
    /\ running
    /\ adminTest.pc # "forwarding"
    /\ LET system == findSystem(TICKETING_SYSTEMS, systemId)
       IN  adminTest' =
             IF system = 0
             THEN [NoTest EXCEPT !.pc = "done", !.systemId = systemId,
                                 !.before = TICKETING_SYSTEMS, !.status = 404, !.error = "System not found"]
             ELSE [NoTest EXCEPT !.pc = "forwarding", !.systemId = systemId,
                                 !.before = TICKETING_SYSTEMS,
                                 !.outbound = <<[kind |-> "forward", to |-> system]>>]
    /\ UNCHANGED <<PAYSTACK_SECRET_KEY, TICKETING_SYSTEMS, flows, answers,
                   errorLogged, adminAdd, calls, health>>

\* The forward of the test settles with outcome o and res.json(result)
\* answers 200 with what forwardWebhook returned.
TestForwardSettles(o) ==
    /\ running
    /\ adminTest.pc = "forwarding"
    /\ adminTest' = [adminTest EXCEPT !.pc = "done", !.status = 200,
                                      !.result = forwardWebhook(1, o)]
    /\ UNCHANGED <<PAYSTACK_SECRET_KEY, TICKETING_SYSTEMS, flows, answers,
                   errorLogged, adminAdd, calls, health>>

\* No health request has been made. statuses[i] is the status of the i-th
\* element of systemStatuses, "pending" while its probe is out.
NoHealth ==
    [pc |-> "idle", statuses |-> <<>>,
     summary |-> [total_systems |-> 0, enabled_systems |-> 0,
                  healthy_systems |-> 0, unhealthy_systems |-> 0]]

\* The answers drawn for a health probe.
ProbeOutcomes == {Resp(200, FALSE), Resp(503, FALSE), Timeout}

\* The status one probe returns: 'healthy' when axios.get resolves (a 2xx
\* answer, no validateStatus being given), 'unhealthy' from the catch.
probeStatus(o) ==
    IF o.kind = "response" /\ defaultValidateStatus(o.status)
    THEN "healthy" ELSE "unhealthy"

\* The summary of the health response, computed from systemStatuses once
\* all probes have returned; each status carries the enabled flag of its
\* system, reg is the registry at that time.
healthSummary(statuses, reg) ==
    LET healthySystems ==
            Cardinality({i \in 1..Len(statuses) : statuses[i] = "healthy"})
        enabledSystemCount ==
            Cardinality({i \in 1..Len(statuses) : reg[i].enabled})
    IN  [total_systems |-> Len(reg),
         enabled_systems |-> enabledSystemCount,
         healthy_systems |-> healthySystems,
         unhealthy_systems |-> enabledSystemCount - healthySystems]

\* GET /health up to `await Promise.all`: one probe is sent to every system
\* of the registry, enabled or not.
HealthCheck ==
    /\ running
    /\ health.pc # "probing"
    /\ health' =
          IF TICKETING_SYSTEMS = <<>>
          THEN [NoHealth EXCEPT !.pc = "done",
                                !.summary = healthSummary(<<>>, TICKETING_SYSTEMS)]
          ELSE [NoHealth EXCEPT !.pc = "probing",
                                !.statuses = [i \in 1..Len(TICKETING_SYSTEMS) |->
                                                 "pending"]]
    /\ UNCHANGED <<PAYSTACK_SECRET_KEY, TICKETING_SYSTEMS, flows, answers,
                   errorLogged, adminAdd, calls, adminTest>>

\* The probe of the i-th system settles with outcome o; once every probe has
\* settled res.json sends the summary.
ProbeSettles(i, o) ==
    /\ running
    /\ health.pc = "probing"
    /\ i \in 1..Len(health.statuses)
    /\ health.statuses[i] = "pending"
    /\ LET statuses == [health.statuses EXCEPT ![i] = probeStatus(o)]
       IN  health' =
             IF \A j \in 1..Len(statuses) : statuses[j] # "pending"
             THEN [pc |-> "done", statuses |-> statuses,
                   summary |-> healthSummary(statuses, TICKETING_SYSTEMS)]
             ELSE [health EXCEPT !.statuses = statuses]
    /\ UNCHANGED <<PAYSTACK_SECRET_KEY, TICKETING_SYSTEMS, flows, answers,
                   errorLogged, adminAdd, calls, adminTest>>

SystemIds == {undefined, "cbs-ticketing", "new-system"}
SystemNames == {undefined, "New System"}
BaseUrls == {undefined, "https://new.example"}

Init ==
    /\ PAYSTACK_SECRET_KEY \in {undefined, ProviderKey}
    /\ TICKETING_SYSTEMS = InitialSystems
    /\ flows = [f \in Flows |-> IdleFlow]
    /\ answers = [f \in Flows |-> <<>>]
    /\ errorLogged = FALSE
    /\ adminAdd = NoAdd
    /\ calls = [c \in 1..2 |-> NoCall]
    /\ adminTest = NoTest
    /\ health = NoHealth

Next ==
    \/ \E f \in Flows, d \in {1, 2}, raw \in RawBodies :
          \E signature \in Signatures(raw) : Dispatch(f, d, signature, raw, FALSE)
    \/ \E f \in Flows, k \in 1..MaxSystems, o \in LookupOutcomes :
          LookupSettles(f, k, o, FALSE)
    \/ \E f \in Flows, o \in ForwardOutcomes : ForwardSettles(f, o)
    \/ \E f \in Flows : Close(f)
    \/ \E id \in SystemIds, name \in SystemNames, baseUrl \in BaseUrls,
          enabled \in BOOLEAN : AddSystem(id, name, baseUrl, enabled, FALSE)

Spec == Init /\ [][Next]_vars

\* One dispatch flow at a time, the answers of its lookups kept beside it.
NextLookups ==
    \/ \E d \in {1, 2}, raw \in RawBodies :
          \E signature \in Signatures(raw) : Dispatch(1, d, signature, raw, TRUE)
    \/ \E k \in 1..MaxSystems, o \in LookupOutcomes : LookupSettles(1, k, o, TRUE)
    \/ \E o \in ForwardOutcomes : ForwardSettles(1, o)
    \/ Close(1)
    \/ \E id \in SystemIds, name \in SystemNames, baseUrl \in BaseUrls,
          enabled \in BOOLEAN : AddSystem(id, name, baseUrl, enabled, FALSE)

SpecLookups == Init /\ [][NextLookups]_vars

\* One dispatch flow at a time beside the administrative requests, whose
\* exchanges are kept.
NextAdmin ==
    \/ \E d \in {1, 2}, raw \in RawBodies :
          \E signature \in Signatures(raw) : Dispatch(1, d, signature, raw, FALSE)
    \/ \E k \in 1..MaxSystems, o \in LookupOutcomes : LookupSettles(1, k, o, FALSE)
    \/ \E o \in ForwardOutcomes : ForwardSettles(1, o)
    \/ Close(1)
    \/ \E id \in SystemIds, name \in SystemNames, baseUrl \in BaseUrls,
          enabled \in BOOLEAN : AddSystem(id, name, baseUrl, enabled, TRUE)
    \/ \E systemId \in TestSystemIds : TestWebhook(systemId)
    \/ \E o \in ForwardOutcomes : TestForwardSettles(o)

SpecAdmin == Init /\ [][NextAdmin]_vars

\* Two calls of findTargetSystem beside the additions to the registry.
NextResolve ==
    \/ \E c \in 1..2, reference \in References : Resolve(c, reference)
    \/ \E c \in 1..2, k \in 1..MaxSystems, o \in CallOutcomes : ResolveSettles(c, k, o)
    \/ \E enabled \in BOOLEAN :
          AddSystem("new-system", "New System", "https://new.example", enabled, FALSE)

SpecResolve == Init /\ [][NextResolve]_vars

\* The health requests beside the additions to the registry.
NextHealth ==
    \/ HealthCheck
    \/ \E i \in 1..MaxSystems, o \in ProbeOutcomes : ProbeSettles(i, o)
    \/ \E id \in SystemIds, name \in SystemNames, baseUrl \in BaseUrls,
          enabled \in BOOLEAN : AddSystem(id, name, baseUrl, enabled, FALSE)

SpecHealth == Init /\ [][NextHealth]_vars

\* Two dispatch flows of the first definition under way together, beside the
\* additions to the registry. The events carry the signature of the
\* provider or none, and each request sent is answered 200 or reaches its
\* deadline.
Pair == 1..2

InitPair ==
    /\ PAYSTACK_SECRET_KEY \in {undefined, ProviderKey}
    /\ TICKETING_SYSTEMS = InitialSystems
    /\ flows = [f \in Pair |-> IdleFlow]
    /\ answers = [f \in Pair |-> <<>>]
    /\ errorLogged = FALSE
    /\ adminAdd = NoAdd
    /\ calls = [c \in 1..2 |-> NoCall]
    /\ adminTest = NoTest
    /\ health = NoHealth

NextPair ==
    \/ \E f \in Pair, raw \in RawBodies :
          \E signature \in {NoSignature,
                            createHmac(ProviderKey, JSONstringify(JSONparse(raw)))} :
             Dispatch(f, 1, signature, raw, FALSE)
    \/ \E f \in Pair, k \in 1..MaxSystems, o \in CallOutcomes :
          LookupSettles(f, k, o, FALSE)
    \/ \E f \in Pair, o \in CallOutcomes : ForwardSettles(f, o)
    \/ \E f \in Pair : Close(f)
    \/ \E enabled \in BOOLEAN :
          AddSystem("new-system", "New System", "https://new.example", enabled, FALSE)

SpecPair == InitPair /\ [][NextPair]_vars

\* Every operation of the program, one dispatch flow at a time. The events
\* carry the signature of the provider, and each request sent is answered 200
\* or reaches its deadline.
NextOps ==
    \/ \E d \in {1, 2}, raw \in RawBodies :
          Dispatch(1, d, createHmac(ProviderKey, JSONstringify(JSONparse(raw))),
                   raw, FALSE)
    \/ \E k \in 1..MaxSystems, o \in CallOutcomes : LookupSettles(1, k, o, FALSE)
    \/ \E o \in CallOutcomes : ForwardSettles(1, o)
    \/ Close(1)
    \/ \E enabled \in BOOLEAN :
          AddSystem("new-system", "New System", "https://new.example", enabled, FALSE)
    \/ \E systemId \in {"cbs-ticketing", "no-such-system"} : TestWebhook(systemId)
    \/ \E o \in CallOutcomes : TestForwardSettles(o)
    \/ HealthCheck
    \/ \E i \in 1..MaxSystems, o \in CallOutcomes : ProbeSettles(i, o)

SpecOps == Init /\ [][NextOps]_vars

\* One dispatch flow at a time, every request of which is answered, fails or
\* reaches the deadline axios was given (timeout: of lines 257 and 368).
NextLive ==
    \/ \E d \in {1, 2}, raw \in RawBodies :
          \E signature \in Signatures(raw) : Dispatch(1, d, signature, raw, FALSE)
    \/ \E k \in 1..MaxSystems, o \in LookupOutcomes : LookupSettles(1, k, o, FALSE)
    \/ \E o \in ForwardOutcomes : ForwardSettles(1, o)
    \/ Close(1)
    \/ \E id \in SystemIds, name \in SystemNames, baseUrl \in BaseUrls,
          enabled \in BOOLEAN : AddSystem(id, name, baseUrl, enabled, FALSE)

SpecLive ==
    /\ Init /\ [][NextLive]_vars
    /\ WF_vars(\E k \in 1..MaxSystems, o \in LookupOutcomes :
                  LookupSettles(1, k, o, FALSE))
    /\ WF_vars(\E o \in ForwardOutcomes : ForwardSettles(1, o))

----------------------------------------------------------------------------
(* Properties *)

\* The positions of the registry whose lookup of flow fl returned the system.
confirmedBy(fl) ==
    {fl.snap[k] : k \in {j \in 1..Len(fl.results) : fl.results[j] = "system"}}

\* Flow fl is past the join of its lookups, its results still at hand.
joined(fl) == fl.pc \in {"forwarding", "done"} /\ fl.snap # <<>>

response(fl) == fl.responses[1]

\* The hash the handler computes for flow fl.
computedHash(fl) ==
    createHmac(PAYSTACK_SECRET_KEY, JSONstringify(JSONparse(fl.rawBody)))

\* C1: a dispatch flow issues at most one forward request, to at most one
\* subscriber, whatever number of subscribers confirmed the reference.
AtMostOneForward ==
    \A f \in Flows : Len(flows[f].forwards) <= 1

\* Both subscribers confirmed and one forward request was issued.
AtMostOneForwardWitness ==
    \E f \in Flows :
        /\ flows[f].pc = "forwarding"
        /\ flows[f].results = <<"system", "system">>
        /\ Len(flows[f].forwards) = 1

\* C2: the forward request is issued, and the flow is past resolution, only
\* when every lookup the resolution started has finished.
ForwardAfterAllLookups ==
    \A f \in Flows :
        (flows[f].forwards # <<>> \/ joined(flows[f])) =>
            /\ Len(flows[f].results) = Len(flows[f].snap)
            /\ \A k \in 1..Len(flows[f].results) : flows[f].results[k] # "pending"

\* A forward request in flight after three lookups, the last two of them
\* without a match.
ForwardAfterAllLookupsWitness ==
    \E f \in Flows :
        /\ flows[f].pc = "forwarding"
        /\ flows[f].results = <<"system", "null", "null">>

\* C3: lookups and forwards are issued only for an event whose signature
\* header is present and equals the computed hash and whose payload has a
\* payment reference; a 400 goes with no outbound call; a bad signature is
\* reported whether or not the reference is there.
NoOutboundUnlessVerified ==
    \A f \in Flows :
        LET fl == flows[f]
            body == JSONparse(fl.rawBody)
        IN  /\ (fl.snap # <<>> \/ fl.forwards # <<>>) =>
                  /\ fl.signature # NoSignature
                  /\ PAYSTACK_SECRET_KEY # undefined
                  /\ fl.signature = computedHash(fl)
                  /\ body.reference # undefined
            /\ (fl.pc = "done" /\ response(fl).status = 400) =>
                  fl.snap = <<>> /\ fl.forwards = <<>>
            /\ (fl.pc = "done" /\ fl.signature # computedHash(fl)) =>
                  response(fl).error # "No payment reference"

\* A forged signature on a payload without reference is rejected for its
\* signature, with no outbound call.
NoOutboundUnlessVerifiedWitness ==
    \E f \in Flows :
        /\ flows[f].pc = "done"
        /\ flows[f].signature = <<"hmac", "forged">>
        /\ JSONparse(flows[f].rawBody).reference = undefined
        /\ response(flows[f]).status = 400
        /\ response(flows[f]).error = "Invalid signature"
        /\ flows[f].snap = <<>> /\ flows[f].forwards = <<>>

\* Flow fl passed the signature check: it was not answered with one of the
\* two signature errors.
accepted(fl) ==
    /\ fl.pc # "idle"
    /\ ~(fl.pc = "done"
         /\ response(fl).error \in {"Missing signature", "Invalid signature"})

\* C4: an event without signature header is rejected with 400 and a reason
\* other than the reason of a mismatched signature.
MissingSignatureDistinct ==
    \A f \in Flows :
        (flows[f].pc = "done" /\ flows[f].signature = NoSignature) =>
            /\ response(flows[f]).status = 400
            /\ response(flows[f]).error # "Invalid signature"

\* C5: with a secret configured, the signature is accepted if and only if
\* the header is the HMAC of the raw body as received.
SignatureOverRawBody ==
    \A f \in Flows :
        (flows[f].pc # "idle" /\ PAYSTACK_SECRET_KEY # undefined) =>
            (accepted(flows[f]) <=>
                flows[f].signature = createHmac(PAYSTACK_SECRET_KEY, flows[f].rawBody))

\* C6: resolution returns the first subscriber in registry order among the
\* enabled subscribers that confirmed, whatever the order in which the
\* lookups settled; none if none confirmed.
FirstConfirmedInRegistryOrder ==
    \A f \in Flows :
        LET fl == flows[f]
            reg == Registry(fl.def)
        IN  joined(fl) =>
              /\ \A k \in 1..Len(fl.snap) : reg[fl.snap[k]].enabled
              /\ \A j, k \in 1..Len(fl.snap) : j < k => fl.snap[j] < fl.snap[k]
              /\ IF confirmedBy(fl) = {} THEN fl.forwards = <<>>
                 ELSE /\ Len(fl.forwards) = 1
                      /\ fl.forwards[1] \in confirmedBy(fl)
                      /\ \A i \in confirmedBy(fl) : fl.forwards[1] <= i

\* The first subscriber did not confirm, the next two did, and the forward
\* goes to the second.
FirstConfirmedInRegistryOrderWitness ==
    \E f \in Flows :
        /\ flows[f].pc = "forwarding"
        /\ flows[f].results = <<"null", "system", "system">>
        /\ flows[f].forwards = <<2>>

\* The k-th lookup of flow f failed: no response, or a status that confirms
\* nothing.
lookupFailed(f, k) ==
    \/ answers[f][k].kind \in {"timeout", "network"}
    \/ answers[f][k].kind = "response" /\ answers[f][k].status \notin {200, 400}

\* C7: failed lookups are absorbed: each yields null, the flow never ends in
\* the generic 500 because of them, and resolution still returns the first
\* confirmed subscriber, or none and then the flow answers 404.
LookupFailuresAbsorbed ==
    \A f \in Flows :
        LET fl == flows[f]
        IN  /\ \A k \in 1..Len(answers[f]) : lookupFailed(f, k) => fl.results[k] = "null"
            /\ (fl.snap # <<>> /\ fl.pc = "done") =>
                  response(fl).error # "Webhook processing failed"
            /\ (fl.snap # <<>> /\ \A k \in 1..Len(fl.results) : fl.results[k] # "pending") =>
                  IF confirmedBy(fl) = {}
                  THEN fl.pc = "done" /\ response(fl).status = 404
                  ELSE /\ fl.pc \in {"forwarding", "done"}
                       /\ fl.forwards # <<>>
                       /\ fl.forwards[1] \in confirmedBy(fl)
                       /\ \A i \in confirmedBy(fl) : fl.forwards[1] <= i

\* Every lookup failed, one by timeout, one by network error, one by a 503,
\* and the flow answered 404.
LookupFailuresAbsorbedWitness ==
    \E f \in Flows :
        /\ answers[f] = <<Timeout, NetworkError, Resp(503, FALSE)>>
        /\ flows[f].pc = "done"
        /\ response(flows[f]).status = 404

\* C8: a lookup is a confirmed match exactly when it was answered with
\* status 200, or with status 400 and a ticket at data.ticket.
LookupClassification ==
    \A f \in Flows :
        \A k \in 1..Len(answers[f]) :
            answers[f][k].kind # "pending" =>
                (flows[f].results[k] = "system" <=>
                    /\ answers[f][k].kind = "response"
                    /\ \/ answers[f][k].status = 200
                       \/ answers[f][k].status = 400 /\ answers[f][k].ticket)

\* A 400 without ticket that is no match beside a 400 with ticket that is.
LookupClassificationWitness ==
    \E f \in Flows :
        /\ Len(answers[f]) >= 2
        /\ answers[f][1] = Resp(400, FALSE) /\ flows[f].results[1] = "null"
        /\ answers[f][2] = Resp(400, TRUE) /\ flows[f].results[2] = "system"

\* The response of a finished flow fl is one of the terminal states of the
\* dispatch, with the body that goes with it.
terminal(fl) ==
    LET r == response(fl)
        body == JSONparse(fl.rawBody)
    IN  CASE r.status = 400 ->
               /\ fl.snap = <<>> /\ fl.forwards = <<>>
               /\ \/ r.error = "Missing signature" /\ fl.signature = NoSignature
                  \/ r.error = "Invalid signature" /\ fl.signature # computedHash(fl)
                  \/ /\ r.error = "No payment reference"
                     /\ fl.signature = computedHash(fl)
                     /\ body.reference = undefined
          [] r.status = 404 ->
               /\ confirmedBy(fl) = {} /\ fl.forwards = <<>>
               /\ \A k \in 1..Len(fl.results) : fl.results[k] = "null"
               /\ r.error = "Payment reference not found in any system"
               /\ fl.def = 1 => r.reference = body.reference /\ r.reference # undefined
          [] r.status = 200 ->
               /\ Len(fl.forwards) = 1
               /\ fl.forwardResult.success
               /\ r.forwardedTo = Registry(fl.def)[fl.forwards[1]].name
               /\ r.response = fl.forwardResult.data
               /\ r.response = fl.downstream.status
          [] r.status = 500 ->
               \/ /\ r.error = "Failed to forward webhook"
                  /\ Len(fl.forwards) = 1
                  /\ ~fl.forwardResult.success
                  /\ r.details = fl.forwardResult.error
                  /\ r.details # ""
               \/ /\ r.error = "Webhook processing failed"
                  /\ fl.snap = <<>> /\ fl.forwards = <<>>
          [] OTHER -> FALSE

\* The steps a flow takes: Received to Resolving or to a response, Resolving
\* to Forwarding or to the 404, Forwarding to the 200 or the 500; a flow
\* that has answered does not change any more, until the request is over.
flowStep(a, b) ==
    \/ a = b
    \/ a.pc = "done" /\ b = IdleFlow
    \/ a.pc = "idle" /\ b.pc = "resolving"
    \/ a.pc = "idle" /\ b.pc = "done" /\ response(b).status \in {400, 500}
    \/ a.pc = "resolving" /\ b.pc = "resolving"
    \/ a.pc = "resolving" /\ b.pc = "forwarding"
    \/ a.pc = "resolving" /\ b.pc = "done" /\ response(b).status = 404
    \/ a.pc = "forwarding" /\ b.pc = "done" /\ response(b).status \in {200, 500}

\* C9: every dispatch flow produces exactly one response, a 400, 404, 200 or
\* 500 with the body of that terminal state, and takes no other transition.
DispatchResponses ==
    /\ [](\A f \in Flows :
            /\ Len(flows[f].responses) = IF flows[f].pc = "done" THEN 1 ELSE 0
            /\ flows[f].pc = "done" => terminal(flows[f])
            /\ flows[f].pc = "resolving" => flows[f].snap # <<>> /\ flows[f].forwards = <<>>
            /\ flows[f].pc = "forwarding" => Len(flows[f].forwards) = 1)
    /\ [][\A f \in Flows : flowStep(flows[f], flows'[f])]_vars

\* A flow answered 500 with the error of its forward target, which had
\* answered 503.
DispatchResponsesWitness ==
    \E f \in Flows :
        /\ flows[f].pc = "done" /\ response(flows[f]).status = 500
        /\ flows[f].downstream = Resp(503, FALSE)
        /\ response(flows[f]).details = "Request failed with status code"

\* C10: forwardWebhook reports success, with the downstream status and body,
\* for every downstream response below 500, and failure with the message
\* and the downstream status or the network-error marker otherwise.
ForwardClassification ==
    \A f \in Flows :
        LET fl == flows[f]
            o == fl.downstream
            r == fl.forwardResult
        IN  (fl.pc = "done" /\ fl.forwards # <<>>) =>
              IF o.kind = "response" /\ o.status < 500
              THEN r.success /\ r.status.code = o.status /\ r.data = o.status
              ELSE /\ ~r.success
                   /\ r.error # ""
                   /\ IF o.kind = "response" THEN r.status.code = o.status
                      ELSE r.status.text = "network_error"

\* The handler of flow fl threw: it came to createHmac with the key unset.
threw(fl) ==
    /\ fl.pc # "idle"
    /\ PAYSTACK_SECRET_KEY = undefined
    /\ fl.def = 1 => fl.signature # NoSignature

\* C11: an exception in a dispatch flow ends that flow with the generic 500
\* and leaves the process running: no exception escapes, and requests that
\* come after a caught exception are answered as they are otherwise.
ExceptionsCaught ==
    \A f \in Flows :
        LET fl == flows[f]
        IN  /\ fl.pc # "crashed"
            /\ threw(fl) =>
                  /\ fl.pc = "done"
                  /\ response(fl).status = 500
                  /\ response(fl).error = "Webhook processing failed"
                  /\ errorLogged
            /\ (errorLogged /\ fl.pc = "done" /\ fl.def = 1
                /\ fl.signature = NoSignature) =>
                  /\ response(fl).status = 400
                  /\ response(fl).error = "Missing signature"

\* After a caught exception, a request without signature got its 400.
ExceptionsCaughtWitness ==
    \E f \in Flows :
        /\ errorLogged
        /\ flows[f].pc = "done"
        /\ flows[f].signature = NoSignature
        /\ response(flows[f]).error = "Missing signature"

\* The identifiers of the entries of registry reg.
idsOf(reg) == {reg[i].id : i \in 1..Len(reg)}

\* C12: a request to add a subscriber whose identifier is already in the
\* registry is rejected and leaves the registry as it was.
DuplicateIdRejected ==
    (adminAdd.op = "add" /\ adminAdd.id # undefined
     /\ adminAdd.id \in idsOf(adminAdd.before)) =>
        /\ adminAdd.status = 400
        /\ TICKETING_SYSTEMS = adminAdd.before

\* C13: every subscriber of the registry has an identifier and no two
\* subscribers have the same.
UniqueDefinedIds ==
    /\ \A i \in 1..Len(TICKETING_SYSTEMS) : TICKETING_SYSTEMS[i].id # undefined
    /\ \A i, j \in 1..Len(TICKETING_SYSTEMS) :
          TICKETING_SYSTEMS[i].id = TICKETING_SYSTEMS[j].id => i = j

\* C14: a request without identifier, name or base address is answered 400
\* and leaves the registry as it was; any other request appends exactly one
\* entry, the requested one, at the end.
AddValidated ==
    adminAdd.op = "add" =>
        IF adminAdd.id = undefined \/ adminAdd.name = undefined
           \/ adminAdd.baseUrl = undefined
        THEN adminAdd.status = 400 /\ TICKETING_SYSTEMS = adminAdd.before
        ELSE /\ adminAdd.status = 200
             /\ Len(TICKETING_SYSTEMS) = Len(adminAdd.before) + 1
             /\ SubSeq(TICKETING_SYSTEMS, 1, Len(adminAdd.before)) = adminAdd.before
             /\ LET new == TICKETING_SYSTEMS[Len(TICKETING_SYSTEMS)]
                IN  /\ new.id = adminAdd.id
                    /\ new.name = adminAdd.name
                    /\ new.enabled = adminAdd.enabled

\* A request with name and base address but no identifier was answered 400.
AddValidatedWitness ==
    /\ adminAdd.op = "add"
    /\ adminAdd.id = undefined
    /\ adminAdd.name # undefined /\ adminAdd.baseUrl # undefined
    /\ adminAdd.status = 400
    /\ TICKETING_SYSTEMS = adminAdd.before

\* snap lists, in registry order, exactly the enabled positions of reg.
enabledSubsetOf(snap, reg) ==
    /\ \A k \in 1..Len(snap) : snap[k] \in 1..Len(reg) /\ reg[snap[k]].enabled
    /\ \A k \in 1..(Len(snap) - 1) : snap[k] < snap[k + 1]
    /\ \A i \in 1..Len(reg) : reg[i].enabled => \E k \in 1..Len(snap) : snap[k] = i

\* C15: the subscribers a resolution queries are, in registry order, exactly
\* the enabled ones of the registry at its start; while it is in flight a
\* step of any other operation, an add included, changes neither them nor the
\* number of its lookups, and the subscriber it returns is one of them.
SnapshotConsistent ==
    [][\A f \in Flows : LET a == flows[f]
                            b == flows'[f]
                        IN  /\ (a.pc = "idle" /\ b.pc = "resolving") =>
                                 /\ enabledSubsetOf(b.snap, Registry(b.def))
                                 /\ Len(b.results) = Len(b.snap)
                            /\ (a.pc = "resolving" /\ b.pc # "crashed") =>
                                 /\ b.snap = a.snap
                                 /\ Len(b.results) = Len(a.results)
                                 /\ \A j \in 1..Len(b.forwards) :
                                       \E k \in 1..Len(a.snap) : a.snap[k] = b.forwards[j]
                            /\ (a.pc = "resolving"
                                /\ Len(TICKETING_SYSTEMS') > Len(TICKETING_SYSTEMS)) =>
                                 /\ b = a
                                 /\ \A k \in 1..Len(b.snap) :
                                       b.snap[k] # Len(TICKETING_SYSTEMS')]_vars

\* A resolution of the first definition is in flight with the two lookups it
\* started with, and the registry has a third, enabled subscriber.
SnapshotConsistentWitness ==
    \E f \in Flows :
        /\ flows[f].pc = "resolving" /\ flows[f].def = 1
        /\ flows[f].snap = <<1, 2>>
        /\ Len(TICKETING_SYSTEMS) = 3 /\ TICKETING_SYSTEMS[3].enabled

\* C16: two calls of findTargetSystem with the same reference, the same
\* registry and the same answer from each subscriber return the same
\* subscriber, or both none, in whatever order the lookups of each settled.
ResolveIdempotent ==
    (/\ calls[1].pc = "done" /\ calls[2].pc = "done"
     /\ calls[1].reference = calls[2].reference
     /\ calls[1].reg = calls[2].reg
     /\ calls[1].answers = calls[2].answers) =>
        calls[1].target = calls[2].target

\* Both calls had the same confirmations from two subscribers, which settled
\* in a different order in each, and both returned the first of the registry.
ResolveIdempotentWitness ==
    /\ calls[1].pc = "done" /\ calls[2].pc = "done"
    /\ calls[1].reference = calls[2].reference
    /\ calls[1].reg = calls[2].reg
    /\ calls[1].answers = calls[2].answers
    /\ calls[1].answers[1] = Resp(200, FALSE)
    /\ calls[1].answers[2] = Resp(200, FALSE)
    /\ calls[1].first = 1 /\ calls[2].first = 2
    /\ calls[1].target = 1 /\ calls[2].target = 1

\* C17: a test request sends no verification lookup; for an id of the
\* registry it found it sends exactly one forward, to a subscriber with that id, and
\* for any other id it sends nothing and answers 404.
TestForwardOnly ==
    adminTest.pc # "idle" =>
        /\ \A n \in 1..Len(adminTest.outbound) : adminTest.outbound[n].kind = "forward"
        /\ IF adminTest.systemId \in idsOf(adminTest.before)
           THEN /\ Len(adminTest.outbound) = 1
                /\ adminTest.outbound[1].to \in 1..Len(adminTest.before)
                /\ adminTest.before[adminTest.outbound[1].to].id = adminTest.systemId
                /\ adminTest.status # 404
           ELSE /\ adminTest.outbound = <<>>
                /\ adminTest.pc = "done"
                /\ adminTest.status = 404

\* A test for the id of an added subscriber sent its one forward to that
\* subscriber and answered with the result, while a dispatch flow is
\* resolving beside it.
TestForwardOnlyWitness ==
    /\ adminTest.pc = "done" /\ adminTest.status = 200
    /\ adminTest.systemId = "new-system"
    /\ adminTest.outbound = <<[kind |-> "forward", to |-> 3]>>
    /\ adminTest.result.success
    /\ flows[1].pc = "resolving"

\* The values of the error field of the failure responses of the handler.
FailureErrors ==
    {"Missing signature", "Invalid signature", "No payment reference",
     "Payment reference not found in any system", "Failed to forward webhook",
     "Webhook processing failed"}

\* C18: every response of the dispatch flow with a failure status (400, 404,
\* 500) has a body with an error field, and only those have one.
FailuresCarryError ==
    \A f \in Flows : \A n \in 1..Len(flows[f].responses) :
        LET r == flows[f].responses[n]
        IN  /\ r.status \in {200, 400, 404, 500}
            /\ r.status # 200 => r.error \in FailureErrors
            /\ r.status = 200 => r.error = ""

\* A flow answered 404 with its error field.
FailuresCarryErrorWitness ==
    \E f \in Flows :
        /\ flows[f].pc = "done"
        /\ response(flows[f]).status = 404
        /\ response(flows[f]).error = "Payment reference not found in any system"

\* Registries none of whose subscribers is enabled.
DisabledRegistries ==
    LET off == [id |-> "new-system", name |-> "New System", enabled |-> FALSE,
                timeout |-> 30000]
    IN  {<<>>, <<off>>, <<off, off>>}

\* C19: a call of findTargetSystem sends one lookup to each enabled
\* subscriber of the registry it finds and none to a disabled one; applied to
\* a registry without an enabled subscriber, the handler sends no lookup and
\* answers 404 in the step of the request.
OnlyEnabledQueried ==
    /\ \A c \in 1..2 :
          calls[c].pc # "idle" =>
             /\ enabledSubsetOf(calls[c].snap, calls[c].reg)
             /\ Len(calls[c].answers) = Len(calls[c].snap)
             /\ Len(calls[c].results) = Len(calls[c].snap)
    /\ \A reg \in DisabledRegistries, raw \in RawBodies :
          LET fl == paystackHandler(1, createHmac(ProviderKey, JSONstringify(JSONparse(raw))),
                                    raw, reg, ProviderKey)
          IN  JSONparse(raw).reference # undefined =>
                 /\ fl.pc = "done"
                 /\ fl.snap = <<>> /\ fl.results = <<>> /\ fl.forwards = <<>>
                 /\ fl.responses[1].status = 404

\* A call found a registry whose third subscriber is disabled and returned
\* after two lookups, to the first and the second.
OnlyEnabledQueriedWitness ==
    \E c \in 1..2 :
        /\ calls[c].pc = "done"
        /\ Len(calls[c].reg) = 3 /\ ~calls[c].reg[3].enabled
        /\ calls[c].snap = <<1, 2>>
        /\ Len(calls[c].answers) = 2
        /\ \A k \in 1..2 : calls[c].answers[k] # Unanswered

\* C20: when the flow first waits, the lookup to every enabled subscriber
\* has been issued and is in flight; a lookup that settles, with a timeout or
\* otherwise, settles alone and leaves the answer and the result of every
\* other lookup as they were.
FanOut ==
    [][LET a == flows[1]
           b == flows'[1]
       IN  /\ (a.pc = "idle" /\ b.pc = "resolving") =>
                /\ Len(b.results) = Len(b.snap)
                /\ Len(answers'[1]) = Len(b.snap)
                /\ \A k \in 1..Len(b.snap) :
                      b.results[k] = "pending" /\ answers'[1][k] = Unanswered
           /\ (a.pc = "resolving" /\ b.pc \in {"resolving", "forwarding", "done"}) =>
                /\ Len(answers'[1]) = Len(answers[1])
                /\ Len(b.results) = Len(a.results)
                /\ \A k \in 1..Len(a.results) :
                      a.results[k] # "pending" =>
                         b.results[k] = a.results[k] /\ answers'[1][k] = answers[1][k]
                /\ \A j, k \in 1..Len(a.results) :
                      (b.results[j] # a.results[j] /\ b.results[k] # a.results[k]) => j = k
                /\ \A k \in 1..Len(a.results) :
                      b.results[k] = "pending" <=> answers'[1][k] = Unanswered]_vars

\* The first lookup timed out and the second, which confirmed, was neither
\* cancelled nor changed: the flow forwards to the second subscriber.
FanOutWitness ==
    /\ flows[1].pc = "forwarding" /\ flows[1].def = 1
    /\ answers[1] = <<Timeout, Resp(200, FALSE)>>
    /\ flows[1].results = <<"null", "system">>
    /\ flows[1].forwards = <<2>>

\* C21: a dispatch flow that is waiting for its lookups or for its forward
\* eventually sends its response, one of the terminal ones, provided every
\* request it sent is answered, fails or reaches its deadline.
FlowTerminates ==
    (flows[1].pc \in {"resolving", "forwarding"}) ~>
        (/\ flows[1].pc = "done"
         /\ Len(flows[1].responses) = 1
         /\ flows[1].responses[1].status \in {200, 404, 500})

\* A flow whose two lookups and whose forward all reached their deadline has
\* answered that the forward failed.
FlowTerminatesWitness ==
    /\ flows[1].pc = "done"
    /\ flows[1].downstream = Timeout
    /\ flows[1].forwardResult.error = errorMessage(Timeout)
    /\ flows[1].responses[1].status = 500
    /\ flows[1].responses[1].error = "Failed to forward webhook"

\* seq is a prefix of other.
isPrefix(seq, other) ==
    Len(seq) <= Len(other) /\ SubSeq(other, 1, Len(seq)) = seq

\* C22: no step of any operation removes, reorders or modifies an entry of
\* the registry: the registry before a step is a prefix of the registry
\* after it, and so the initial registry is a prefix of every registry. A
\* step of a dispatch flow, of a test request or of a health request leaves
\* the registry as it was.
AppendOnly ==
    /\ [](isPrefix(InitialSystems, TICKETING_SYSTEMS))
    /\ [][/\ isPrefix(TICKETING_SYSTEMS, TICKETING_SYSTEMS')
          /\ (flows' # flows \/ adminTest' # adminTest \/ health' # health) =>
                TICKETING_SYSTEMS' = TICKETING_SYSTEMS]_vars

\* The registry was appended to while a dispatch flow, a test request and a
\* health request were under way.
AppendOnlyWitness ==
    /\ Len(TICKETING_SYSTEMS) = 3
    /\ flows[1].pc = "forwarding"
    /\ adminTest.pc = "forwarding"
    /\ health.pc = "probing" /\ Len(health.statuses) = 2

\* Two flows received the same event.
sameEvent(a, b) ==
    a.def = b.def /\ a.signature = b.signature /\ a.rawBody = b.rawBody

\* C23: a step of a dispatch flow (request, lookup, forward) leaves the
\* registry unchanged and changes the record of that flow only; and two
\* flows under way together that received the same event, started with the
\* same enabled subscribers and had the same results from their lookups
\* forward to the same subscriber, and with the same answer to their forward
\* they send the same response.
FlowsIndependent ==
    /\ [](\A f, g \in DOMAIN flows :
            LET a == flows[f]
                b == flows[g]
            IN  /\ (/\ joined(a) /\ joined(b) /\ sameEvent(a, b)
                    /\ a.snap = b.snap /\ a.results = b.results) =>
                       /\ a.forwards = b.forwards
                       /\ (a.pc = "done" /\ b.pc = "done") => a.responses = b.responses
                /\ (/\ a.pc = "done" /\ b.pc = "done" /\ sameEvent(a, b)
                    /\ a.forwards = b.forwards /\ a.downstream = b.downstream) =>
                       a.responses = b.responses)
    /\ [][/\ flows' # flows => TICKETING_SYSTEMS' = TICKETING_SYSTEMS
          /\ \A f, g \in DOMAIN flows :
                (flows'[f] # flows[f] /\ flows'[g] # flows[g]) => f = g]_vars

\* Two flows with the same event are forwarding together after an addition
\* to the registry, the first to the second subscriber, the second, whose
\* first lookup confirmed, to the first.
FlowsIndependentWitness ==
    /\ DOMAIN flows = 1..2
    /\ flows[1].pc = "forwarding" /\ flows[2].pc = "forwarding"
    /\ sameEvent(flows[1], flows[2])
    /\ flows[1].results = <<"null", "system">> /\ flows[1].forwards = <<2>>
    /\ flows[2].results = <<"system", "system">> /\ flows[2].forwards = <<1>>
    /\ Len(TICKETING_SYSTEMS) = 3

confirms(o) ==
    o.kind = "response" /\ (o.status = 200 \/ (o.status = 400 /\ o.ticket))

\* C25: the subscriber a flow forwards to is one of those its resolution
\* started with, an enabled entry of the registry, and the answer to the
\* lookup this flow sent it confirmed the reference; the 200 of the flow
\* names that subscriber.
RoutingSound ==
    LET fl == flows[1]
        reg == Registry(fl.def)
    IN  /\ fl.pc = "forwarding" =>
              /\ Len(fl.forwards) = 1
              /\ \E k \in 1..Len(fl.snap) :
                    /\ fl.snap[k] = fl.forwards[1]
                    /\ fl.results[k] = "system"
                    /\ confirms(answers[1][k])
              /\ fl.forwards[1] \in 1..Len(reg)
              /\ reg[fl.forwards[1]].enabled
        /\ (fl.pc = "done" /\ fl.responses[1].status = 200) =>
              /\ Len(fl.forwards) = 1
              /\ fl.responses[1].forwardedTo = reg[fl.forwards[1]].name

\* A flow forwards to the third subscriber, added before the flow started,
\* the only one whose answer confirmed.
RoutingSoundWitness ==
    /\ flows[1].pc = "forwarding" /\ flows[1].def = 1
    /\ flows[1].snap = <<1, 2, 3>>
    /\ answers[1] = <<Resp(404, FALSE), Timeout, Resp(400, TRUE)>>
    /\ flows[1].forwards = <<3>>

\* C26: no forward request, of a dispatch flow or of a test request, goes to
\* a subscriber whose enabled flag is false.
NoForwardToDisabled ==
    /\ \A f \in Flows : \A n \in 1..Len(flows[f].forwards) :
          Registry(flows[f].def)[flows[f].forwards[n]].enabled
    /\ \A n \in 1..Len(adminTest.outbound) :
          adminTest.outbound[n].kind = "forward" =>
             TICKETING_SYSTEMS[adminTest.outbound[n].to].enabled

\* C27: in a health response, unhealthy_systems is not negative and is the
\* number of enabled subscribers whose probe failed.
UnhealthyCount ==
    health.pc = "done" =>
        /\ health.summary.unhealthy_systems >= 0
        /\ health.summary.unhealthy_systems =
              Cardinality({i \in 1..Len(health.statuses) :
                              /\ TICKETING_SYSTEMS[i].enabled
                              /\ health.statuses[i] = "unhealthy"})

====
